---- MODULE Spec2Model ----
(***************************************************************************)
(* Complaint portal: the relational schema with its row-level policies     *)
(* (the SQL migration), the complaint submission dialog                    *)
(* (ComplaintDialog.tsx, handleSubmit) and the dashboard's complaint list  *)
(* (Dashboard.tsx, queryFn).                                               *)
(*                                                                         *)
(* A table is a set of rows where a key makes rows distinct, and a count   *)
(* per key where only a constraint the code checks keeps them distinct.    *)
(* Only the columns that a policy, a constraint, the dialog or the list    *)
(* reads are kept in a row.                                                *)
(***************************************************************************)
EXTENDS Integers, Sequences, FiniteSets

\* ------------------------------------------------------------------ bounds
MaxAccounts == 2
MaxComplaints == 2
MaxRows == 1
MaxFiles == 2
MaxSubmits == 1
MaxClock == 1

\* ------------------------------------------------------- schema constants
\* auth.uid() of a request without a session (the `anon` role)
NoUser == 0

Accounts == 1 .. MaxAccounts
Actors == Accounts \cup {NoUser}

\* app_role
app_role == {"student", "admin"}
\* complaint_status
complaint_status == {"new", "in_progress", "resolved", "closed"}
\* complaint_priority
complaint_priority == {"low", "medium", "high", "urgent"}

\* gen_random_uuid() of complaints.id: the n-th complaint row; never an account id
ComplaintId(n) == MaxAccounts + 10 + n
ComplaintIds == {ComplaintId(n) : n \in 1 .. MaxComplaints}

VARIABLES
    users,           \* auth.users: the set of account ids
    profiles,        \* profiles: number of rows per id
    user_roles,      \* user_roles: number of rows per <<user_id, role>>
    complaints,      \* complaints: set of rows
    status_history,  \* complaint_status_history: sequence of rows, in insertion order
    admin_notes,     \* admin_notes: sequence of rows, in insertion order
    attachments,     \* complaint_attachments: sequence of rows, in insertion order
    objects,         \* storage.objects of bucket complaint-attachments
    now,             \* now() / Date.now()
    dialog,          \* ComplaintDialog: component state and position in handleSubmit
    listed,          \* Dashboard: what queryFn returned last
    last             \* history: the last step, as operation, actor, arguments, outcome

dbvars == <<users, profiles, user_roles, complaints, status_history,
            admin_notes, attachments, objects>>
vars == <<users, profiles, user_roles, complaints, status_history,
          admin_notes, attachments, objects, now, dialog, listed, last>>

\* ----------------------------------------------------------------- helpers
NoArg == [none |-> TRUE]
Request(op, actor, arg, ok) == [op |-> op, actor |-> actor, arg |-> arg, ok |-> ok]

\* TO authenticated: the request carries a session of an existing account
authenticated(uid) == uid # NoUser /\ uid \in users

\* public.has_role
has_role(_user_id, _role) ==
    \E k \in DOMAIN user_roles :
        k[1] = _user_id /\ k[2] = _role /\ user_roles[k] > 0

ComplaintRow(id) == CHOOSE c \in complaints : c.id = id

\* ------------------------------------------------------ row-level policies
\* variant: the policy names the wrong role
only_students_can_manage_roles(uid) ==
    authenticated(uid) /\ has_role(uid, "student")

\* "Only admins can manage roles": FOR ALL, USING only, so the same
\* expression filters the rows touched and checks the rows written
only_admins_can_manage_roles(uid) ==
    authenticated(uid) /\ has_role(uid, "admin")

\* variant: the INSERT policy also lets an admin insert for another account
users_can_create_complaints_or_admin(uid, row) ==
    authenticated(uid) /\ (uid = row.user_id \/ has_role(uid, "admin"))

\* "Users can create complaints": WITH CHECK (auth.uid() = user_id)
users_can_create_complaints(uid, row) ==
    authenticated(uid) /\ uid = row.user_id

\* "Users can update own complaints": USING (auth.uid() = user_id)
users_can_update_own_complaints(uid, row) ==
    authenticated(uid) /\ uid = row.user_id

\* "Admins can update any complaint": USING (has_role(auth.uid(), 'admin'))
admins_can_update_any_complaint(uid, row) ==
    authenticated(uid) /\ has_role(uid, "admin")

\* variant: the UPDATE policy written as USING (true)
complaints_update_policy_open(uid, row) == authenticated(uid)

\* the two permissive UPDATE policies of complaints, OR-ed; with no WITH CHECK
\* clause the same expression is applied to the row as written
complaints_update_policy(uid, row) ==
    users_can_update_own_complaints(uid, row) \/ admins_can_update_any_complaint(uid, row)

\* "Admins can add status history": WITH CHECK (has_role(auth.uid(), 'admin'))
admins_can_add_status_history(uid, row) ==
    authenticated(uid) /\ has_role(uid, "admin")

\* variant: the policy without `auth.uid() = admin_id`
only_admins_can_create_admin_notes_unsigned(uid, row) ==
    authenticated(uid) /\ has_role(uid, "admin")

\* "Only admins can create admin notes"
only_admins_can_create_admin_notes(uid, row) ==
    authenticated(uid) /\ has_role(uid, "admin") /\ uid = row.admin_id

\* "Users can add attachments to own complaints"
users_can_add_attachments(uid, row) ==
    authenticated(uid) /\
    \E c \in complaints : c.id = row.complaint_id /\ c.user_id = uid

\* ------------------------------------------------------------ account creation
\* handle_new_user, run by on_auth_user_created inside the INSERT's transaction:
\* the two inserts in order; a failing insert raises, and nothing after it runs.
\* profileFails / roleFails: the insert raises for a reason outside the model.
handle_new_user(id, profileFails, roleFails) ==
    LET profileOk == ~profileFails /\ profiles[id] = 0
        roleOk == ~roleFails /\ user_roles[<<id, "student">>] = 0
    IN  [raised |-> ~(profileOk /\ roleOk),
         profiles |-> IF profileOk THEN [profiles EXCEPT ![id] = @ + 1] ELSE profiles,
         user_roles |-> IF profileOk /\ roleOk
                        THEN [user_roles EXCEPT ![<<id, "student">>] = @ + 1]
                        ELSE user_roles]

\* variant: a best-effort trigger, whose exception does not undo the account row
\* nor the insert made before it
CreateAccountBestEffort(profileFails, roleFails) ==
    /\ Cardinality(users) < MaxAccounts
    /\ LET id == Cardinality(users) + 1
           t == handle_new_user(id, profileFails, roleFails)
       IN  /\ users' = users \cup {id}
           /\ profiles' = t.profiles
           /\ user_roles' = t.user_roles
           /\ last' = Request("create_account", NoUser, [id |-> id], ~t.raised)
    /\ UNCHANGED <<complaints, status_history, admin_notes, attachments,
                   objects, now, dialog, listed>>

\* INSERT INTO auth.users with the AFTER INSERT trigger: one transaction, so an
\* exception raised by the trigger undoes the account row as well
CreateAccount(profileFails, roleFails) ==
    /\ Cardinality(users) < MaxAccounts
    /\ LET id == Cardinality(users) + 1
           t == handle_new_user(id, profileFails, roleFails)
       IN  /\ users' = IF t.raised THEN users ELSE users \cup {id}
           /\ profiles' = IF t.raised THEN profiles ELSE t.profiles
           /\ user_roles' = IF t.raised THEN user_roles ELSE t.user_roles
           /\ last' = Request("create_account", NoUser, [id |-> id], ~t.raised)
    /\ UNCHANGED <<complaints, status_history, admin_notes, attachments,
                   objects, now, dialog, listed>>

\* ------------------------------------------------------------------ user_roles
\* INSERT INTO user_roles (user_id, role)
InsertRole(uid, user_id, role) ==
    LET ok == /\ only_admins_can_manage_roles(uid)
              /\ user_id \in users                       \* REFERENCES auth.users
              /\ user_roles[<<user_id, role>>] = 0        \* UNIQUE(user_id, role)
    IN  /\ user_roles' = IF ok THEN [user_roles EXCEPT ![<<user_id, role>>] = @ + 1]
                         ELSE user_roles
        /\ last' = Request("insert_role", uid, [user_id |-> user_id, role |-> role], ok)
        /\ UNCHANGED <<users, profiles, complaints, status_history, admin_notes,
                       attachments, objects, now, dialog, listed>>

\* UPDATE user_roles SET role = newRole WHERE user_id = .. AND role = ..
UpdateRole(uid, user_id, role, newRole) ==
    LET ok == /\ only_admins_can_manage_roles(uid)
              /\ user_roles[<<user_id, role>>] > 0
              /\ (newRole = role \/ user_roles[<<user_id, newRole>>] = 0)
    IN  /\ user_roles' = IF ok /\ newRole # role
                         THEN [user_roles EXCEPT ![<<user_id, role>>] = @ - 1,
                                                 ![<<user_id, newRole>>] = @ + 1]
                         ELSE user_roles
        /\ last' = Request("update_role", uid,
                           [user_id |-> user_id, role |-> role, newRole |-> newRole], ok)
        /\ UNCHANGED <<users, profiles, complaints, status_history, admin_notes,
                       attachments, objects, now, dialog, listed>>

\* DELETE FROM user_roles WHERE user_id = .. AND role = ..
DeleteRole(uid, user_id, role) ==
    LET ok == /\ only_admins_can_manage_roles(uid)
              /\ user_roles[<<user_id, role>>] > 0
    IN  /\ user_roles' = IF ok THEN [user_roles EXCEPT ![<<user_id, role>>] = 0]
                         ELSE user_roles
        /\ last' = Request("delete_role", uid, [user_id |-> user_id, role |-> role], ok)
        /\ UNCHANGED <<users, profiles, complaints, status_history, admin_notes,
                       attachments, objects, now, dialog, listed>>

\* ------------------------------------------------------------------ complaints
\* values a request may carry for the upvotes column (INT)
UpvoteInputs == {-1, 0, 1}

\* the row INSERT INTO complaints builds: id and created_at from their defaults
NewComplaint(user_id, status, upvotes) ==
    [id |-> ComplaintId(Cardinality(complaints) + 1), user_id |-> user_id,
     status |-> status, upvotes |-> upvotes, created_at |-> now]

\* INSERT INTO complaints, issued with the session of uid
InsertComplaint(uid, user_id, status, upvotes) ==
    LET row == NewComplaint(user_id, status, upvotes)
        ok == /\ users_can_create_complaints(uid, row)
              /\ user_id \in users                       \* REFERENCES auth.users
    IN  /\ Cardinality(complaints) < MaxComplaints
        /\ complaints' = IF ok THEN complaints \cup {row} ELSE complaints
        /\ last' = Request("insert_complaint", uid, [user_id |-> user_id, id |-> row.id], ok)
        /\ UNCHANGED <<users, profiles, user_roles, status_history, admin_notes,
                       attachments, objects, now, dialog, listed>>

\* UPDATE complaints SET <col> = <val>
Patches ==
    [col : {"user_id"}, val : Accounts] \cup
    [col : {"status"}, val : complaint_status] \cup
    [col : {"upvotes"}, val : UpvoteInputs]

Patched(row, patch) ==
    CASE patch.col = "user_id" -> [row EXCEPT !.user_id = patch.val]
      [] patch.col = "status" -> [row EXCEPT !.status = patch.val]
      [] patch.col = "upvotes" -> [row EXCEPT !.upvotes = patch.val]

\* UPDATE complaints SET .. WHERE id = ..: the policy's USING hides the row from the
\* statement (no row updated), and the row as written must pass the policy again
UpdateComplaint(uid, id, patch) ==
    /\ \E c \in complaints : c.id = id
    /\ LET old == ComplaintRow(id)
           new == Patched(old, patch)
           ok == /\ complaints_update_policy(uid, old)
                 /\ new.user_id \in users                \* REFERENCES auth.users
                 /\ complaints_update_policy(uid, new)
       IN  /\ complaints' = IF ok THEN (complaints \ {old}) \cup {new} ELSE complaints
           /\ last' = Request("update_complaint", uid, [id |-> id, patch |-> patch], ok)
    /\ UNCHANGED <<users, profiles, user_roles, status_history, admin_notes,
                   attachments, objects, now, dialog, listed>>

\* ------------------------------------------- status history and admin notes
\* INSERT INTO complaint_status_history
InsertStatusHistory(uid, complaint_id, status, changed_by) ==
    LET row == [complaint_id |-> complaint_id, status |-> status, changed_by |-> changed_by]
        ok == /\ admins_can_add_status_history(uid, row)
              /\ \E c \in complaints : c.id = complaint_id   \* REFERENCES complaints
              /\ changed_by \in users                        \* REFERENCES auth.users
    IN  /\ Len(status_history) + Len(admin_notes) < MaxRows
        /\ status_history' = IF ok THEN Append(status_history, row) ELSE status_history
        /\ last' = Request("insert_status_history", uid, row, ok)
        /\ UNCHANGED <<users, profiles, user_roles, complaints, admin_notes,
                       attachments, objects, now, dialog, listed>>

\* INSERT INTO admin_notes
InsertAdminNote(uid, complaint_id, admin_id) ==
    LET row == [complaint_id |-> complaint_id, admin_id |-> admin_id]
        ok == /\ only_admins_can_create_admin_notes(uid, row)
              /\ \E c \in complaints : c.id = complaint_id   \* REFERENCES complaints
              /\ admin_id \in users                          \* REFERENCES auth.users
    IN  /\ Len(status_history) + Len(admin_notes) < MaxRows
        /\ admin_notes' = IF ok THEN Append(admin_notes, row) ELSE admin_notes
        /\ last' = Request("insert_admin_note", uid, row, ok)
        /\ UNCHANGED <<users, profiles, user_roles, complaints, status_history,
                       attachments, objects, now, dialog, listed>>

\* now() advances
Tick ==
    /\ now < MaxClock
    /\ now' = now + 1
    /\ last' = Request("tick", NoUser, NoArg, TRUE)
    /\ UNCHANGED <<dbvars, dialog, listed>>

\* ------------------------------------------------------------------ session
\* useAuth().user: the account signed in at this client, or NoUser
SignIn(u) ==
    /\ dialog.pc = "idle"
    /\ dialog.user = NoUser
    /\ u \in users
    /\ dialog' = [dialog EXCEPT !.user = u]
    /\ last' = Request("sign_in", u, NoArg, TRUE)
    /\ UNCHANGED <<dbvars, now, listed>>

\* Dashboard.handleSignOut
handleSignOut ==
    /\ dialog.pc = "idle"
    /\ dialog.user # NoUser
    /\ dialog' = [dialog EXCEPT !.user = NoUser]
    /\ last' = Request("sign_out", dialog.user, NoArg, TRUE)
    /\ UNCHANGED <<dbvars, now, listed>>

\* ------------------------------------------------------------ ComplaintDialog
\* the component's useState values
EmptyForm ==
    [title |-> "", description |-> "", category |-> "", priority |-> "medium",
     isAnonymous |-> FALSE, files |-> <<>>]

\* the user fills the form and picks n files (handleFileChange); a file is its
\* position in the picker's list
FilledForm(n) ==
    [title |-> "Broken AC", description |-> "no cooling", category |-> "Facilities",
     priority |-> "high", isAnonymous |-> FALSE, files |-> [i \in 1 .. n |-> i]]

EditForm(n) ==
    /\ dialog.pc = "idle"
    /\ dialog.form # FilledForm(n)
    /\ dialog' = [dialog EXCEPT !.form = FilledForm(n)]
    /\ last' = Request("edit_form", dialog.user, NoArg, TRUE)
    /\ UNCHANGED <<dbvars, now, listed>>

\* the catch and finally blocks of handleSubmit: the error toast; the form's state
\* is not touched
Caught(d) == [d EXCEPT !.pc = "idle", !.toast = "error", !.loading = FALSE]

\* the statements after the try body's last await: success toast, the dialog
\* closes and every field is reset
Succeeded(d) ==
    [d EXCEPT !.pc = "idle", !.toast = "success", !.loading = FALSE,
              !.open = FALSE, !.form = EmptyForm]

\* handleSubmit up to its first await; `if (!user) return`
handleSubmit ==
    /\ dialog.pc = "idle"
    /\ dialog.open
    /\ Cardinality(complaints) < MaxComplaints
    /\ dialog.submits < MaxSubmits
    /\ dialog' = IF dialog.user = NoUser THEN dialog
                 ELSE [dialog EXCEPT !.pc = "insert_complaint", !.loading = TRUE,
                                     !.toast = "none", !.submitted = dialog.form,
                                     !.complaint = 0, !.i = 1, !.calls = <<>>,
                                     !.submits = @ + 1]
    /\ last' = Request("submit", dialog.user, NoArg, dialog.user # NoUser)
    /\ UNCHANGED <<dbvars, now, listed>>

\* supabase.from("complaints").insert({user_id: user.id, .., status: "new"});
\* `if (complaintError) throw complaintError`; with no file the loop is skipped.
\* fails: the call fails for a reason outside the model (transport, validation)
SubmitInsertComplaint(fails) ==
    /\ dialog.pc = "insert_complaint"
    /\ LET row == NewComplaint(dialog.user, "new", 0)
           ok == /\ ~fails
                 /\ users_can_create_complaints(dialog.user, row)
                 /\ row.user_id \in users
           d == [dialog EXCEPT !.calls = Append(@, [call |-> "complaint", i |-> 0, ok |-> ok])]
       IN  /\ complaints' = IF ok THEN complaints \cup {row} ELSE complaints
           /\ dialog' = IF ~ok THEN Caught(d)
                        ELSE IF Len(dialog.submitted.files) > 0
                             THEN [d EXCEPT !.pc = "upload", !.complaint = row.id]
                             ELSE Succeeded([d EXCEPT !.complaint = row.id])
           /\ last' = Request("insert_complaint", dialog.user,
                              [user_id |-> row.user_id, id |-> row.id], ok)
    /\ UNCHANGED <<users, profiles, user_roles, status_history, admin_notes, attachments,
                   objects, now, listed>>

\* `${complaint.id}/${Date.now()}.${fileExt}`: the path as its segments, folder first
fileName(complaint_id, file) == <<complaint_id, now>>

\* storage.foldername(name): the segments before the last
foldername(name) == SubSeq(name, 1, Len(name) - 1)

\* "Authenticated users can upload attachments"
authenticated_users_can_upload(uid, name) == authenticated(uid)

\* "Users can delete own attachments": auth.uid()::text = (storage.foldername(name))[1]
users_can_delete_own_attachments(uid, name) ==
    authenticated(uid) /\ Len(foldername(name)) >= 1 /\ uid = foldername(name)[1]

\* supabase.storage.from("complaint-attachments").upload(fileName, file);
\* `if (uploadError) throw uploadError`. An object name is unique in its bucket.
\* fails: the store refuses the file (size, type, transport)
SubmitUpload(fails) ==
    /\ dialog.pc = "upload"
    /\ LET file == dialog.submitted.files[dialog.i]
           name == fileName(dialog.complaint, file)
           ok == /\ ~fails
                 /\ authenticated_users_can_upload(dialog.user, name)
                 /\ ~\E o \in objects : o.name = name
           d == [dialog EXCEPT !.calls = Append(@, [call |-> "upload", i |-> dialog.i, ok |-> ok])]
       IN  /\ objects' = IF ok THEN objects \cup {[name |-> name, owner |-> dialog.user]}
                         ELSE objects
           /\ dialog' = IF ok THEN [d EXCEPT !.pc = "insert_attachment"] ELSE Caught(d)
           /\ last' = Request("upload", dialog.user, [name |-> name], ok)
    /\ UNCHANGED <<users, profiles, user_roles, complaints, status_history,
                   admin_notes, attachments, now, listed>>

\* `await supabase.from("complaint_attachments").insert({..})`: the result is not
\* read, so an error of this call neither throws nor ends the loop
SubmitInsertAttachment(fails) ==
    /\ dialog.pc = "insert_attachment"
    /\ LET file == dialog.submitted.files[dialog.i]
           row == [complaint_id |-> dialog.complaint, file_name |-> file,
                   file_url |-> fileName(dialog.complaint, file)]
           ok == ~fails /\ users_can_add_attachments(dialog.user, row)
           d == [dialog EXCEPT !.calls = Append(@, [call |-> "attachment", i |-> dialog.i, ok |-> ok]),
                               !.i = @ + 1]
       IN  /\ attachments' = IF ok THEN Append(attachments, row) ELSE attachments
           /\ dialog' = IF dialog.i < Len(dialog.submitted.files)
                        THEN [d EXCEPT !.pc = "upload"]
                        ELSE Succeeded(d)
           /\ last' = Request("insert_attachment", dialog.user, row, ok)
    /\ UNCHANGED <<users, profiles, user_roles, complaints, status_history,
                   admin_notes, objects, now, listed>>

\* the dialog is opened again after a submission closed it (DialogTrigger)
OpenDialog ==
    /\ dialog.pc = "idle"
    /\ ~dialog.open
    /\ dialog' = [dialog EXCEPT !.open = TRUE]
    /\ last' = Request("open_dialog", dialog.user, NoArg, TRUE)
    /\ UNCHANGED <<dbvars, now, listed>>

\* DELETE FROM storage.objects WHERE name = .., issued with the session of uid
DeleteObject(uid, name) ==
    /\ \E o \in objects : o.name = name
    /\ LET ok == users_can_delete_own_attachments(uid, name)
       IN  /\ objects' = IF ok THEN {o \in objects : o.name # name} ELSE objects
           /\ last' = Request("delete_object", uid, [name |-> name], ok)
    /\ UNCHANGED <<users, profiles, user_roles, complaints, status_history,
                   admin_notes, attachments, now, dialog, listed>>

\* ------------------------------------------------------------------ Dashboard
\* "Anyone can view complaints": FOR SELECT TO authenticated USING (true)
anyone_can_view_complaints(uid, row) == authenticated(uid)

\* useAuth().isAdmin: whether the signed-in account holds the admin role
isAdmin == has_role(dialog.user, "admin")

\* the sequences that hold each row of rows once
Orderings(rows) ==
    {s \in [1 .. Cardinality(rows) -> rows] :
        \A i, j \in 1 .. Cardinality(rows) : i # j => s[i] # s[j]}

\* .order("created_at", {ascending: false}): rows of equal created_at in any order
order_created_at_desc(rows) ==
    {s \in Orderings(rows) :
        \A i \in 1 .. Len(s) - 1 : s[i].created_at >= s[i + 1].created_at}

\* variant: the query without `.eq("user_id", user.id)`
queryFnUnfiltered ==
    IF dialog.user = NoUser THEN {<<>>}
    ELSE order_created_at_desc(
            {c \in complaints : anyone_can_view_complaints(dialog.user, c)})

\* queryFn: the results it can return
queryFn ==
    IF dialog.user = NoUser THEN {<<>>}
    ELSE order_created_at_desc(
            {c \in complaints :
                /\ anyone_can_view_complaints(dialog.user, c)
                /\ (isAdmin \/ c.user_id = dialog.user)})

ListComplaints ==
    /\ \E r \in queryFn : listed' = r
    /\ last' = Request("list_complaints", dialog.user, NoArg, TRUE)
    /\ UNCHANGED <<dbvars, now, dialog>>

\* --------------------------------------------------------------- specification
\* The migration leaves every table empty. No policy lets the first admin role be
\* granted by a request, so an installation either has none or has one granted by
\* the database owner to the first account (seeded).
Init ==
    \E seeded \in BOOLEAN :
        /\ users = IF seeded THEN {1} ELSE {}
        /\ profiles = [u \in Accounts |-> IF seeded /\ u = 1 THEN 1 ELSE 0]
        /\ user_roles = [k \in Accounts \X app_role |-> IF seeded /\ k[1] = 1 THEN 1 ELSE 0]
        /\ complaints = {}
        /\ status_history = <<>>
        /\ admin_notes = <<>>
        /\ attachments = <<>>
        /\ objects = {}
        /\ now = 0
        /\ dialog = [user |-> NoUser, open |-> TRUE, loading |-> FALSE, form |-> EmptyForm,
                     pc |-> "idle", submitted |-> EmptyForm, complaint |-> 0, i |-> 1,
                     calls |-> <<>>, toast |-> "none", submits |-> 0]
        /\ listed = <<>>
        /\ last = Request("none", NoUser, NoArg, TRUE)

\* sign-up
NextAccounts ==
    \E profileFails, roleFails \in BOOLEAN : CreateAccount(profileFails, roleFails)

\* the requests on user_roles that carry these roles
NextRoles(roles) ==
    \/ \E uid \in Actors, u \in Accounts, r \in roles : InsertRole(uid, u, r)
    \/ \E uid \in Actors, u \in Accounts, r, r2 \in roles : UpdateRole(uid, u, r, r2)
    \/ \E uid \in Actors, u \in Accounts, r \in roles : DeleteRole(uid, u, r)

\* the requests on complaints that carry these values
NextComplaints(statuses, upvotes, patches) ==
    \/ \E uid \in Actors, u \in Accounts, st \in statuses, up \in upvotes :
           InsertComplaint(uid, u, st, up)
    \/ \E uid \in Actors, id \in ComplaintIds, patch \in patches :
           UpdateComplaint(uid, id, patch)

\* the inserts of status-history rows that carry these statuses, and of admin notes
NextAdminRows(statuses) ==
    \/ \E uid \in Actors, id \in ComplaintIds, st \in statuses, by \in Accounts :
           InsertStatusHistory(uid, id, st, by)
    \/ \E uid \in Actors, id \in ComplaintIds, by \in Accounts :
           InsertAdminNote(uid, id, by)

NextSession ==
    \/ \E u \in Accounts : SignIn(u)
    \/ handleSignOut

NextDialog ==
    \/ \E n \in 0 .. MaxFiles : EditForm(n)
    \/ OpenDialog
    \/ handleSubmit
    \/ \E fails \in BOOLEAN : SubmitInsertComplaint(fails)
    \/ \E fails \in BOOLEAN : SubmitUpload(fails)
    \/ \E fails \in BOOLEAN : SubmitInsertAttachment(fails)
    \/ \E uid \in Actors, name \in {o.name : o \in objects} : DeleteObject(uid, name)

Next ==
    \/ NextAccounts
    \/ NextRoles(app_role)
    \/ NextComplaints(complaint_status, UpvoteInputs, Patches)
    \/ NextAdminRows(complaint_status)
    \/ NextSession
    \/ NextDialog
    \/ ListComplaints
    \/ Tick

Spec == Init /\ [][Next]_vars

\* accounts, roles and complaints under the row-level policies
OwnerPatches == [col : {"user_id"}, val : Accounts]

\* accounts and role assignments
SpecRoles == Init /\ [][NextAccounts \/ NextRoles(app_role)]_vars

\* complaints under their policies, with accounts gaining and losing the admin role
NextDB ==
    \/ NextAccounts
    \/ NextRoles({"admin"})
    \/ NextComplaints({"new"}, {0}, OwnerPatches \cup {[col |-> "status", val |-> "in_progress"]})

SpecDB == Init /\ [][NextDB]_vars


\* an admin grants the admin role to an account, or takes it away
NextAdminGrants ==
    \/ \E uid \in Accounts, u \in Accounts : InsertRole(uid, u, "admin")
    \/ \E uid \in Accounts, u \in Accounts : DeleteRole(uid, u, "admin")

\* an account files a complaint of its own
NextOwnComplaints ==
    \E u \in Accounts : InsertComplaint(u, u, "new", 0)

\* status history and admin notes under their policies
NextNotes ==
    \/ NextAccounts
    \/ NextAdminGrants
    \/ InsertComplaint(1, 1, "new", 0)
    \/ NextAdminRows({"in_progress"})

SpecNotes == Init /\ [][NextNotes]_vars

\* one client: sign-up, session, the dialog and its submission, the object store
NextSubmit ==
    \/ NextAccounts
    \/ NextSession
    \/ NextDialog
    \/ Tick

SpecSubmit == Init /\ [][NextSubmit]_vars

\* the dashboard's list over complaints of several accounts and times; the admin,
\* if any, is the seeded one
NextList ==
    \/ NextAccounts
    \/ NextSession
    \/ NextOwnComplaints
    \/ Tick
    \/ ListComplaints

SpecList == Init /\ [][NextList]_vars

\* complaints created and updated with any status and any upvotes value a request
\* may carry
FieldPatches == {patch \in Patches : patch.col # "user_id"}

NextFields ==
    \/ NextAccounts
    \/ NextComplaints(complaint_status, UpvoteInputs, FieldPatches)

SpecFields == Init /\ [][NextFields]_vars

\* ------------------------------------------------------------------- claims
\* the account holds the admin role (a user_roles row for it exists)
HoldsAdmin(a) == a \in Accounts /\ user_roles[<<a, "admin">>] > 0

\* the step is this request
Did(op) == last'.op = op

\* in an update step: the row addressed, before the step, and what the request
\* makes of it
Target == ComplaintRow(last'.arg.id)
OwnerOrAdmin == last'.actor = Target.user_id \/ HoldsAdmin(last'.actor)
KeepsOwner == Patched(Target, last'.arg.patch).user_id = Target.user_id
\* the row as written refers to an existing account
ValidUpdate == Patched(Target, last'.arg.patch).user_id \in users

\* C1 as stated: an update of a complaint (one that writes a valid row) is
\* permitted if and only if the actor is its owner or holds the admin role, and
\* an update by any other account changes no complaint.
C1_UpdateIffOwnerOrAdmin ==
    [][Did("update_complaint") =>
          /\ ValidUpdate => (last'.ok <=> OwnerOrAdmin)
          /\ ~OwnerOrAdmin => complaints' = complaints]_vars

\* C1 amended: an update by an account that is neither the owner nor an admin is
\* rejected and changes no complaint; an update that keeps the owner field is
\* permitted if and only if the actor is the owner or an admin; an update that
\* hands the complaint to another existing account is permitted if and only if
\* the actor is an admin; every rejected update leaves every complaint as it was.
C1_UpdateAuthorization ==
    [][Did("update_complaint") =>
          /\ ~OwnerOrAdmin => ~last'.ok
          /\ KeepsOwner => (last'.ok <=> OwnerOrAdmin)
          /\ (ValidUpdate /\ ~KeepsOwner) => (last'.ok <=> HoldsAdmin(last'.actor))
          /\ ~ValidUpdate => ~last'.ok
          /\ ~last'.ok => complaints' = complaints
          /\ last'.ok => complaints' =
                (complaints \ {Target}) \cup {Patched(Target, last'.arg.patch)}]_vars

\* C1 witness: an existing account that neither owns the complaint nor holds the
\* admin role asked to change its status and was rejected
C1_Witness ==
    /\ last.op = "update_complaint" /\ ~last.ok
    /\ last.actor \in users
    /\ last.actor # ComplaintRow(last.arg.id).user_id
    /\ ~HoldsAdmin(last.actor)
    /\ last.arg.patch.col = "status"

\* C2: an insert of a complaint whose owner is not the actor is rejected, for an
\* admin too, and adds no row; a row that is added has the actor as its owner.
C2_InsertOwnerIsActor ==
    [][Did("insert_complaint") =>
          /\ last'.arg.user_id # last'.actor => (~last'.ok /\ complaints' = complaints)
          /\ last'.ok =>
                \E row \in complaints' :
                    /\ row.id = last'.arg.id /\ row.user_id = last'.actor
                    /\ row \notin complaints
                    /\ complaints' = complaints \cup {row}]_vars

\* C2 witness: an admin asked to insert a complaint owned by another existing
\* account and was rejected
C2_Witness ==
    /\ last.op = "insert_complaint" /\ ~last.ok
    /\ HoldsAdmin(last.actor) /\ last.actor \in users
    /\ last.arg.user_id \in users /\ last.arg.user_id # last.actor

\* the valid row of the request: its references exist
RowRefersTo(complaint_id, account) ==
    (\E c \in complaints : c.id = complaint_id) /\ account \in users

\* C3: an insert of a status-history row or of an admin note by an actor without
\* the admin role is rejected and adds no row; by an admin it succeeds, for a
\* note only when the note's admin_id is the actor.
C3_AdminRows ==
    [][/\ Did("insert_status_history") =>
             /\ ~HoldsAdmin(last'.actor) => ~last'.ok
             /\ (HoldsAdmin(last'.actor) /\ last'.actor \in users
                    /\ RowRefersTo(last'.arg.complaint_id, last'.arg.changed_by))
                  => last'.ok
             /\ status_history' = IF last'.ok THEN Append(status_history, last'.arg)
                                  ELSE status_history
       /\ Did("insert_admin_note") =>
             /\ ~HoldsAdmin(last'.actor) => ~last'.ok
             /\ last'.arg.admin_id # last'.actor => ~last'.ok
             /\ (HoldsAdmin(last'.actor) /\ last'.actor \in users
                    /\ last'.arg.admin_id = last'.actor
                    /\ RowRefersTo(last'.arg.complaint_id, last'.arg.admin_id))
                  => last'.ok
             /\ admin_notes' = IF last'.ok THEN Append(admin_notes, last'.arg)
                               ELSE admin_notes]_vars

\* C3 witness: an admin asked to insert a note attributed to another existing
\* account, on an existing complaint, and was rejected
C3_Witness ==
    /\ last.op = "insert_admin_note" /\ ~last.ok
    /\ HoldsAdmin(last.actor) /\ last.actor \in users
    /\ RowRefersTo(last.arg.complaint_id, last.arg.admin_id)
    /\ last.arg.admin_id # last.actor
    /\ admin_notes = <<>>

\* C4: the owner of a complaint never changes after its creation.
C4_OwnerImmutable ==
    [][\A c \in complaints : \A d \in complaints' :
          d.id = c.id => d.user_id = c.user_id]_vars

\* the role table differs only by the student row of the account just created
BootstrapRow ==
    /\ Did("create_account") /\ last'.ok
    /\ user_roles' = [user_roles EXCEPT ![<<last'.arg.id, "student">>] = 1]

RoleRequests == {"insert_role", "update_role", "delete_role"}

\* C5: the role table changes only by the student row of a sign-up or by a
\* request of an actor who holds the admin role when making it; a role request by
\* any other actor is rejected and leaves the table as it was; an account that
\* gains the admin role got it from a request of another account.
C5_RolesOnlyByAdmin ==
    [][/\ user_roles' # user_roles =>
             \/ BootstrapRow
             \/ last'.op \in RoleRequests /\ HoldsAdmin(last'.actor)
       /\ (last'.op \in RoleRequests /\ ~HoldsAdmin(last'.actor)) =>
             (~last'.ok /\ user_roles' = user_roles)
       /\ \A a \in Accounts :
             (user_roles[<<a, "admin">>] = 0 /\ user_roles'[<<a, "admin">>] > 0) =>
                 (last'.actor # a /\ HoldsAdmin(last'.actor))]_vars

\* C5 witness: an existing account without the admin role asked to grant that role
\* to itself and was rejected
C5_Witness ==
    /\ last.op = "insert_role" /\ ~last.ok
    /\ last.actor \in users /\ ~HoldsAdmin(last.actor)
    /\ last.arg.user_id = last.actor /\ last.arg.role = "admin"

\* C10 as stated: in no state does an account have a profile and no student role
\* row, or a student role row and no profile.
C10_ProfileIffStudentRow ==
    \A u \in Accounts : (profiles[u] > 0) <=> (user_roles[<<u, "student">>] > 0)

\* C10 amended: a sign-up either adds the account with exactly one profile and
\* exactly one role row, student, or fails and adds nothing; every account has
\* exactly one profile at all times, and no <<account, role>> pair has two rows.
\* (The student row may later be removed or changed by an admin.)
C10_Bootstrap ==
    /\ [][Did("create_account") =>
             IF last'.ok
             THEN /\ last'.arg.id \notin users
                  /\ users' = users \cup {last'.arg.id}
                  /\ profiles' = [profiles EXCEPT ![last'.arg.id] = 1]
                  /\ user_roles' = [user_roles EXCEPT ![<<last'.arg.id, "student">>] = 1]
                  /\ user_roles'[<<last'.arg.id, "admin">>] = 0
             ELSE UNCHANGED <<users, profiles, user_roles>>]_vars
    /\ [](\A u \in Accounts : profiles[u] = IF u \in users THEN 1 ELSE 0)
    /\ [](\A k \in DOMAIN user_roles :
             user_roles[k] <= 1 /\ (user_roles[k] > 0 => k[1] \in users))

\* C10 witness: a sign-up failed and left no account, profile or role row
C10_Witness ==
    /\ last.op = "create_account" /\ ~last.ok
    /\ last.arg.id \notin users
    /\ profiles[last.arg.id] = 0
    /\ \A r \in app_role : user_roles[<<last.arg.id, r>>] = 0


\* ---------------------------------------------------- claims on the submission
\* the calls of the submission under way or just ended
Calls == dialog.calls

\* the files of the attachment rows of a complaint, in insertion order
RECURSIVE AttachedFiles(_, _)
AttachedFiles(rows, complaint_id) ==
    IF rows = <<>> THEN <<>>
    ELSE LET rest == AttachedFiles(Tail(rows), complaint_id)
         IN  IF Head(rows).complaint_id = complaint_id
             THEN <<Head(rows).file_name>> \o rest
             ELSE rest

\* C6: the attachment row of a file is inserted only right after the storage write
\* of that file succeeded; a failed storage write of the k-th file is the last call
\* of the submission, is reported, and leaves exactly the rows of files 1..k-1.
C6_PartialUpload ==
    \A j \in 1 .. Len(Calls) :
        /\ Calls[j].call = "attachment" =>
              (j > 1 /\ Calls[j - 1] = [call |-> "upload", i |-> Calls[j].i, ok |-> TRUE])
        /\ (Calls[j].call = "upload" /\ ~Calls[j].ok) =>
              /\ j = Len(Calls)
              /\ dialog.pc = "idle"
              /\ dialog.toast = "error"
              /\ AttachedFiles(attachments, dialog.complaint) =
                     SubSeq(dialog.submitted.files, 1, Calls[j].i - 1)

\* C7: when a submission ends, a failed call of it means the error is shown and
\* the form keeps its input; the success notification and the clearing of the
\* form happen only when every call succeeded.
C7_FailurePropagates ==
    [][(dialog.pc # "idle" /\ dialog'.pc = "idle") =>
          LET failed == \E j \in 1 .. Len(dialog'.calls) : ~dialog'.calls[j].ok
          IN  /\ failed => (dialog'.toast = "error" /\ dialog'.form = dialog.form)
              /\ (dialog'.toast = "success" \/ dialog'.form # dialog.form) => ~failed]_vars

\* C8: every stored object has its uploader's id as the first segment of its path,
\* and its deletion is permitted to the account that uploaded it and to no other.
C8_ObjectsNamespacedByOwner ==
    \A o \in objects :
        /\ o.name[1] = o.owner
        /\ \A a \in Actors :
              users_can_delete_own_attachments(a, o.name) <=> a = o.owner

\* ---------------------------------------------------------- claim on the list
\* the complaints the actor of the list request is to see
Visible(a) ==
    IF HoldsAdmin(a) THEN complaints ELSE {c \in complaints : c.user_id = a}

\* C9: the list holds, each once, the actor's own complaints, or all complaints for
\* an admin, by created_at descending; it is empty without a signed-in account.
C9_ListComplaints ==
    [][Did("list_complaints") =>
          IF last'.actor = NoUser THEN listed' = <<>>
          ELSE /\ {listed'[i] : i \in 1 .. Len(listed')} = Visible(last'.actor)
               /\ Len(listed') = Cardinality(Visible(last'.actor))
               /\ \A i, j \in 1 .. Len(listed') :
                     i < j => listed'[i].created_at >= listed'[j].created_at]_vars

\* C9 witness: an account without the admin role listed complaints while a
\* complaint of another account exists, and got only its own
C9_Witness ==
    /\ last.op = "list_complaints"
    /\ last.actor \in users /\ ~HoldsAdmin(last.actor)
    /\ \E c \in complaints : c.user_id # last.actor
    /\ Len(listed) = 1
    /\ listed[1].user_id = last.actor

\* ------------------------------------------- claims on status and upvotes
\* C11: a complaint has status "new" and upvotes 0 right after its creation,
\* whatever status the create request carries.
C11_CreatedNewWithoutUpvotes ==
    [][(Did("insert_complaint") /\ last'.ok) =>
          \A c \in complaints' \ complaints :
              c.status = "new" /\ c.upvotes = 0]_vars

\* C12: the upvotes of every complaint are non-negative in every state.
C12_UpvotesNonNegative ==
    \A c \in complaints : c.upvotes >= 0

====
